---- MODULE Spec2Model ----
(***************************************************************************)
(* COCO Vision (src/coco_vision.py): the visual regression engine.         *)
(*                                                                         *)
(* The model follows one CocoVision object: its threshold, the single      *)
(* comparisons CocoVision.compare / CocoVision.compare_local, and the      *)
(* batch loop of CocoVision.audit_batch.  Similarities and thresholds are  *)
(* exact numbers in hundredths (0.95 is 95, 0.1 is 10).  What the external *)
(* collaborators answer (Figma export, screenshot capture, the image       *)
(* comparator, the Gemini analyzer) is chosen nondeterministically from    *)
(* small sets.  The identifier, timestamp and duration of a record are     *)
(* left out of VisualDiff: they are set from the wall clock and decide     *)
(* none of the other fields.                                               *)
(*                                                                         *)
(* Further specifications over the same variables follow one comparison at *)
(* the level of the image files (ImageSpec, ScenarioSpec), the comparison  *)
(* identifiers (IdSpec), the dashboard server of                           *)
(* src/dashboard/api_server.py (DashSpec, DashLiveSpec, MachineSpec), the  *)
(* console agent of src/coco.py (AgentSpec) and the agentic core of        *)
(* src/coco_os.py (CoreSpec).  Each of them leaves the variables of the    *)
(* others at their initial values.                                         *)
(***************************************************************************)
EXTENDS Integers, Sequences, FiniteSets, TLC

VARIABLES
    threshold,      \* CocoVision.threshold
    call,           \* the operation called last: "none", "compare", "compare_local", "audit_batch"
    pc,             \* "idle" (constructed, or the call returned), "batch" (inside the
                    \* loop of audit_batch), "raised" (the call left by an exception),
                    \* "interrupted" (the call left by KeyboardInterrupt)
    comparisons,    \* audit_batch: the list of requests it was called with
    use_gemini,     \* audit_batch: its use_gemini argument
    results,        \* audit_batch: the local list results
    acquired,       \* per entry of results (or for diff): were both images acquired
    diff,           \* the VisualDiff returned by the last compare / compare_local
    report,         \* the VisionReport returned by the last audit_batch
    \* one comparison at the level of the image files
    has_playwright, \* "from playwright.sync_api import sync_playwright" succeeds
    has_PIL,        \* "from PIL import Image" succeeds
    has_numpy,      \* "import numpy" succeeds
    has_imagehash,  \* ImageComparator.has_imagehash
    ipc,            \* "start", "exported", "captured", "compared", "hashed"
    image1,         \* the image file of the design (figma_path / figma_image_path)
    image2,         \* the image file ScreenshotCapturer.capture left at code_path
    captured,       \* what capture did: "none", "screenshot", "placeholder", "empty", "raised"
    out,            \* what ImageComparator.compare computed and returned
    hashes,         \* the arguments and the result of ImageComparator.compare_hashes
    \* the identifiers of the comparisons of one process
    now,            \* int(time.time())
    ids,            \* the comparison_id of every comparison so far, in order
    \* the dashboard server (src/dashboard/api_server.py): the global coco and
    \* the threads of the server
    current_state,  \* COCOStateMachine.current_state
    thinking_log,   \* len(COCOStateMachine.thinking_log)
    approval_request, \* COCOStateMachine.approval_request: "None" or "set"
    requests,       \* HTTP requests (or direct calls) handled so far
    response,       \* the answer to the last request
    threads,        \* the background threads started by generate_design, in order
    executions,     \* execute threads started by approve_design
    events,         \* the state_change events emitted, in order
    last_call,      \* the last direct call of COCOStateMachine.transition
    \* the console agent (src/coco.py): one CocoAgent
    task,           \* the keyword families the task text contains
    essence,        \* CocoAgent.essence
    agent_state,    \* CocoAgent.state
    agent_pc,       \* where main / run_workflow / execute stands
    visited,        \* the values CocoAgent.state has had, in order
    choice,         \* what Prompt.ask returned
    selected_option, \* CocoAgent.selected_option
    \* the agentic core (src/coco_os.py): one CocoOS
    gemini_model,   \* AgenticCore.gemini_model is set
    core_state,     \* AgenticCore.state
    core_pc,        \* where CocoOS.interactive stands
    instruction,    \* what the instruction given to analyze mentions
    output          \* the CocoOutput analyze returned

visionVars == <<threshold, call, pc, comparisons, use_gemini, results, acquired, diff, report>>
imageVars == <<has_playwright, has_PIL, has_numpy, has_imagehash, ipc, image1, image2,
               captured, out, hashes>>
idVars == <<now, ids>>
dashVars == <<current_state, thinking_log, approval_request, requests, response, threads,
              executions, events, last_call>>
agentVars == <<task, essence, agent_state, agent_pc, visited, choice, selected_option>>
coreVars == <<gemini_model, core_state, core_pc, instruction, output>>
flowVars == <<dashVars, agentVars, coreVars>>

vars == <<visionVars, imageVars, idVars, flowVars>>

----------------------------------------------------------------------------
(* Bounds and constants *)

MaxBatch == 2               \* longest request list given to audit_batch

DEFAULT_THRESHOLD == 95     \* 0.95
WARNING_BAND == 10          \* the 0.1 of "self.threshold - 0.1"

\* thresholds a caller may construct CocoVision with (--threshold is any float,
\* __init__ stores it unchecked)
Thresholds == {-5, 5, DEFAULT_THRESHOLD}

\* requests: {figma_file, figma_node, code_url}
Requests ==
    { [figma_file |-> "fileA", figma_node |-> "1:2", code_url |-> "http://a"],
      [figma_file |-> "fileB", figma_node |-> "3:4", code_url |-> "http://b"] }

\* local Figma exports given to compare_local
LocalImages == {"design.png"}

RECURSIVE SeqsUpTo(_, _)
SeqsUpTo(S, n) ==
    IF n = 0 THEN {<<>>}
    ELSE LET shorter == SeqsUpTo(S, n - 1)
         IN  shorter \cup { Append(s, x) : s \in {q \in shorter : Len(q) = n - 1}, x \in S }

RequestLists == SeqsUpTo(Requests, MaxBatch)

----------------------------------------------------------------------------
(* Data structures *)

\* class ComparisonResult(Enum)
ComparisonResult == {"PASS", "FAIL", "WARNING", "ERROR"}

\* Optional[Dict]: None, or a dict given by its keys and the value under
\* "recommendation" (the only value the engine reads)
None == [isNone |-> TRUE, keys |-> {}, recommendation |-> ""]
Dict(ks, rec) == [isNone |-> FALSE, keys |-> ks, recommendation |-> rec]

\* Python truth value of an Optional[Dict]: None and {} are false
Truthy(d) == ~d.isNone /\ d.keys # {}

\* what GeminiVisionAnalyzer.analyze_diff can return: {"error": ...} when the
\* model is missing or anything raised, {"raw": ...} when the answer holds no
\* JSON, otherwise the JSON object of the answer (whatever keys it has)
analyze_diff ==
    { Dict({"error"}, ""),
      Dict({"raw"}, ""),
      Dict({"overall_score", "discrepancies"}, ""),
      Dict({"recommendation", "overall_score", "discrepancies"}, "SHIP"),
      Dict({"recommendation", "overall_score", "discrepancies"}, "FIX"),
      Dict({"recommendation", "overall_score", "discrepancies"}, "BLOCK") }

\* what ImageComparator.compare can return: (similarity, pixel_diff_count,
\* diff image written or not); (0.5, 0, None) when PIL/numpy are missing
ImageComparator_compare ==
    { [similarity |-> 100, pixel_diff_count |-> 0, diff_image_path |-> "diff.png"],
      [similarity |-> 95,  pixel_diff_count |-> 1, diff_image_path |-> "diff.png"],
      [similarity |-> 85,  pixel_diff_count |-> 2, diff_image_path |-> "diff.png"],
      [similarity |-> 84,  pixel_diff_count |-> 2, diff_image_path |-> "diff.png"],
      [similarity |-> 0,   pixel_diff_count |-> 4, diff_image_path |-> "diff.png"],
      [similarity |-> 50,  pixel_diff_count |-> 0, diff_image_path |-> "None"] }

\* the values of the record when no comparison ran
NotCompared == [similarity |-> 0, pixel_diff_count |-> 0, diff_image_path |-> "None"]

\* @dataclass VisualDiff
VisualDiff(figma_source, code_source, similarity, t, result, cmp, semantic_analysis) ==
    [ figma_source      |-> figma_source,
      code_source       |-> code_source,
      similarity_score  |-> similarity,
      threshold         |-> t,
      result            |-> result,
      diff_image_path   |-> cmp.diff_image_path,
      pixel_diff_count  |-> cmp.pixel_diff_count,
      total_pixels      |-> 0,
      semantic_analysis |-> semantic_analysis ]

NoDiff == [ figma_source |-> "", code_source |-> "", similarity_score |-> 0,
            threshold |-> 0, result |-> "", diff_image_path |-> "None",
            pixel_diff_count |-> 0, total_pixels |-> 0, semantic_analysis |-> None ]

\* VisionReport with a failed bucket that counts every result that did not pass
VisionReport_failed_counts_warnings(rs) ==
    LET Count(res) == Cardinality({ i \in DOMAIN rs : rs[i].result = res })
        sum[ i \in 0..Len(rs) ] == IF i = 0 THEN 0 ELSE sum[i - 1] + rs[i].similarity_score
    IN  [ total_comparisons  |-> Len(rs),
          passed             |-> Count("PASS"),
          failed             |-> Len(rs) - Count("PASS"),
          warnings           |-> Count("WARNING"),
          average_similarity |-> IF rs # <<>> THEN [num |-> sum[Len(rs)], den |-> Len(rs)]
                                              ELSE [num |-> 0, den |-> 1],
          comparisons        |-> rs ]

\* @dataclass VisionReport; average_similarity is the exact quotient num/den
VisionReport(rs) ==
    LET Count(res) == Cardinality({ i \in DOMAIN rs : rs[i].result = res })
        sum[ i \in 0..Len(rs) ] == IF i = 0 THEN 0 ELSE sum[i - 1] + rs[i].similarity_score
    IN  [ total_comparisons  |-> Len(rs),
          passed             |-> Count("PASS"),
          failed             |-> Count("FAIL"),
          warnings           |-> Count("WARNING"),
          average_similarity |-> IF rs # <<>> THEN [num |-> sum[Len(rs)], den |-> Len(rs)]
                                              ELSE [num |-> 0, den |-> 1],
          comparisons        |-> rs ]

NoReport == [ total_comparisons |-> 0, passed |-> 0, failed |-> 0, warnings |-> 0,
              average_similarity |-> [num |-> 0, den |-> 1], comparisons |-> <<>> ]

----------------------------------------------------------------------------
(* Classification *)

\* compare_result with > in place of the first >=
compare_result_strict(similarity, t) ==
    IF similarity > t THEN "PASS"
    ELSE IF similarity >= t - WARNING_BAND THEN "WARNING"
    ELSE "FAIL"

\* CocoVision.compare, "Determine result"
compare_result(similarity, t) ==
    IF similarity >= t THEN "PASS"
    ELSE IF similarity >= t - WARNING_BAND THEN "WARNING"
    ELSE "FAIL"

\* compare_override in which SHIP overrides too
compare_override_ship_passes(result, semantic_analysis) ==
    IF Truthy(semantic_analysis) /\ "recommendation" \in semantic_analysis.keys
    THEN IF semantic_analysis.recommendation = "BLOCK" THEN "FAIL"
         ELSE IF semantic_analysis.recommendation = "FIX" THEN "WARNING"
         ELSE IF semantic_analysis.recommendation = "SHIP" THEN "PASS"
         ELSE result
    ELSE result

\* CocoVision.compare, "Override with Gemini recommendation if available"
compare_override(result, semantic_analysis) ==
    IF Truthy(semantic_analysis) /\ "recommendation" \in semantic_analysis.keys
    THEN IF semantic_analysis.recommendation = "BLOCK" THEN "FAIL"
         ELSE IF semantic_analysis.recommendation = "FIX" THEN "WARNING"
         ELSE result
    ELSE result

\* compare_local_result with "similarity > self.threshold"
compare_local_result_exclusive(similarity, t) ==
    IF similarity > t THEN "PASS"
    ELSE IF similarity >= t - WARNING_BAND THEN "WARNING"
    ELSE "FAIL"

\* CocoVision.compare_local, "Determine result" (there is no override here)
compare_local_result(similarity, t) ==
    IF similarity >= t THEN "PASS"
    ELSE IF similarity >= t - WARNING_BAND THEN "WARNING"
    ELSE "FAIL"

----------------------------------------------------------------------------
(* One comparison *)

\* The record CocoVision.compare returns.  figma_ok / code_ok: export_frame /
\* capture returned a path (when it raised, the path is None); cmp: what
\* ImageComparator.compare returned; analysis: what analyze_diff returned.
CocoVision_compare(req, t, gemini, figma_ok, code_ok, cmp, analysis) ==
    LET both     == figma_ok /\ code_ok
        c        == IF both THEN cmp ELSE NotCompared
        semantic == IF gemini /\ both THEN analysis ELSE None
        result   == compare_override(compare_result(c.similarity, t), semantic)
    IN  VisualDiff(req.figma_file \o ":" \o req.figma_node, req.code_url,
                   c.similarity, t, result, c, semantic)

\* The record CocoVision.compare_local returns (capture and the comparator
\* returned normally).
CocoVision_compare_local(figma_image_path, code_url, t, gemini, cmp, analysis) ==
    LET semantic == IF gemini THEN analysis ELSE None
        result   == compare_local_result(cmp.similarity, t)
    IN  VisualDiff(figma_image_path, code_url, cmp.similarity, t, result, cmp, semantic)

----------------------------------------------------------------------------
(* Image files and the pixel comparison of ImageComparator.compare *)

MaxWidth == 2               \* widest image of the model (images are MaxWidth x 1 at most)

NOISE_THRESHOLD == 10       \* diff_arr > 10
HIGHLIGHT_SUM == 30         \* sum(abs(a - b) ...) > 30
max_mse == 255 * 255        \* max_mse = 255 ** 2

\* (255, 0, 100), the colour of a highlighted pixel of the diff image
HIGHLIGHT == <<255, 0, 100>>

\* the RGB pixels the images of the model are made of
Palette == { <<0, 0, 0>>, <<255, 255, 255>>, <<10, 10, 10>>, <<11, 0, 0>> }

\* an RGB image of height 1, its pixels in row-major order
Image(w, px) == [width |-> w, height |-> 1, pixels |-> px]
ImagesOfWidth(w) == { Image(w, px) : px \in [1..w -> Palette] }
Images == UNION { ImagesOfWidth(w) : w \in 1..MaxWidth }

\* no image: no file, or the empty file of _capture_fallback
NoImage == [width |-> 0, height |-> 0, pixels |-> <<>>]

\* Image.new('RGB', (1440, 900), color=(240, 240, 240)), at the size of the model
PlaceholderImage == Image(MaxWidth, [i \in 1..MaxWidth |-> <<240, 240, 240>>])

\* img2.resize(img1.size, LANCZOS): an image of one colour keeps its colour;
\* of any other image the resampled pixels are not computed here, every image
\* of the new size is a possible result
resize(img, w) ==
    IF \A i \in 1..img.width : img.pixels[i] = img.pixels[1]
    THEN { Image(w, [i \in 1..w |-> img.pixels[1]]) }
    ELSE ImagesOfWidth(w)

Abs(x) == IF x < 0 THEN -x ELSE x

\* ImageChops.difference(img1, img2): per channel |a - b|
difference(img1, img2) ==
    [i \in 1..img1.width |->
        [c \in 1..3 |-> Abs(img1.pixels[i][c] - img2.pixels[i][c])]]

\* diff_mask with "diff_arr >= 10": a difference of exactly 10 counts
diff_mask_inclusive(diff_arr) ==
    [i \in DOMAIN diff_arr |-> \E c \in 1..3 : diff_arr[i][c] >= NOISE_THRESHOLD]

\* np.any(diff_arr > 10, axis=2)
diff_mask(diff_arr) ==
    [i \in DOMAIN diff_arr |-> \E c \in 1..3 : diff_arr[i][c] > NOISE_THRESHOLD]

\* (a - b) ** 2 on uint8 values without astype(float): the difference wraps
squared_error_uint8(a, b) == ((a - b) % 256) * ((a - b) % 256)

\* (arr1.astype(float) - arr2.astype(float)) ** 2, one channel of one pixel
squared_error(a, b) == (a - b) * (a - b)

\* sum_squared_error over the first channel only
sum_squared_error_first_channel(img1, img2) ==
    LET row[i \in 0..img1.width] ==
            IF i = 0 THEN 0
            ELSE row[i - 1] + squared_error(img1.pixels[i][1], img2.pixels[i][1])
    IN  row[img1.width]

\* the sum np.mean divides by the number of channel values
sum_squared_error(img1, img2) ==
    LET row[i \in 0..img1.width] ==
            IF i = 0 THEN 0
            ELSE row[i - 1] + squared_error(img1.pixels[i][1], img2.pixels[i][1])
                            + squared_error(img1.pixels[i][2], img2.pixels[i][2])
                            + squared_error(img1.pixels[i][3], img2.pixels[i][3])
    IN  row[img1.width]

\* similarity_of without the "1 -": the normalized error itself
similarity_of_error(img1, img2) ==
    LET n == img1.width * img1.height * 3
    IN  [num |-> sum_squared_error(img1, img2), den |-> max_mse * n]

\* similarity = 1 - (mse / max_mse), the exact quotient num/den
\* (mse = sum_squared_error / (width * height * 3))
similarity_of(img1, img2) ==
    LET n == img1.width * img1.height * 3
    IN  [num |-> max_mse * n - sum_squared_error(img1, img2), den |-> max_mse * n]

\* int(c * 0.3); equal to (3 * c) div 10 for every c in 0..255
fade(c) == (3 * c) \div 10

\* "Generate diff image": the pixel loop over img1 and the resized img2
diff_img(img1, img2) ==
    Image(img1.width,
        [i \in 1..img1.width |->
            IF Abs(img1.pixels[i][1] - img2.pixels[i][1])
                 + Abs(img1.pixels[i][2] - img2.pixels[i][2])
                 + Abs(img1.pixels[i][3] - img2.pixels[i][3]) > HIGHLIGHT_SUM
            THEN HIGHLIGHT
            ELSE << fade(img1.pixels[i][1]), fade(img1.pixels[i][2]), fade(img1.pixels[i][3]) >>])

\* ImageComparator.compare on img1 and img2 of the same size (img2 already
\* resized), with an output_diff_path: what it returns, and its locals
\* total_pixels, diff_mask and img2
compare_images(img1, img2) ==
    LET mask == diff_mask(difference(img1, img2))
    IN  [ similarity       |-> similarity_of(img1, img2),
          pixel_diff_count |-> Cardinality({ i \in DOMAIN mask : mask[i] }),
          total_pixels     |-> img1.height * img1.width,
          diff_mask        |-> mask,
          diff_image       |-> diff_img(img1, img2),
          img2             |-> img2 ]

\* ImageComparator.compare without PIL or numpy: return 0.5, 0, None
compare_unavailable ==
    [ similarity |-> [num |-> 1, den |-> 2], pixel_diff_count |-> 0, total_pixels |-> 0,
      diff_mask |-> <<>>, diff_image |-> NoImage, img2 |-> NoImage ]

NoOut ==
    [ similarity |-> [num |-> 0, den |-> 1], pixel_diff_count |-> 0, total_pixels |-> 0,
      diff_mask |-> <<>>, diff_image |-> NoImage, img2 |-> NoImage ]

\* The scenario images: a reference of one colour, and the same image with a
\* block of k pixels from position p on painted in another colour
ScenarioWidth == 20         \* pixels of a scenario image
MaxShift == 2               \* pixels of the longest painted block

Uniform(w, colour) == Image(w, [i \in 1..w |-> colour])

Painted(img, p, k, colour) ==
    Image(img.width,
          [i \in 1..img.width |-> IF p <= i /\ i < p + k THEN colour ELSE img.pixels[i]])

\* the similarity as CocoVision compares it with a threshold of whole
\* hundredths t: num/den >= t/100 iff (100 * num) div den >= t
hundredths(q) == (100 * q.num) \div q.den

----------------------------------------------------------------------------
(* Perceptual hashes: ImageComparator.compare_hashes *)

HashLen == 2                \* hex digits of a hash string of the model

\* the hex digits the hash strings of the model are made of
HexDigits == {0, 5, 15}

\* the strings perceptual_hash returns: hex digits (str(imagehash.phash(img)),
\* or the md5 hexdigest of the file), all of one length
HashStrings == [1..HashLen -> HexDigits]

\* imagehash: hex_to_hash(hash1) - hex_to_hash(hash2), the number of bits in
\* which the two hashes differ
hamming(hash1, hash2) ==
    LET bit(d, k) == (d \div (2 ^ k)) % 2
    IN  Cardinality({ <<i, k>> \in (1..Len(hash1)) \X (0..3) :
                         bit(hash1[i], k) # bit(hash2[i], k) })

\* compare_hashes returning the normalized distance itself
compare_hashes_distance(hash1, hash2, imagehash) ==
    IF ~imagehash
    THEN IF hash1 = hash2 THEN [num |-> 0, den |-> 1] ELSE [num |-> 1, den |-> 1]
    ELSE LET distance     == hamming(hash1, hash2)
             max_distance == Len(hash1) * 4
         IN  [num |-> distance, den |-> max_distance]

\* ImageComparator.compare_hashes: the exact quotient num/den of what it returns
compare_hashes(hash1, hash2, imagehash) ==
    IF ~imagehash
    THEN IF hash1 = hash2 THEN [num |-> 1, den |-> 1] ELSE [num |-> 0, den |-> 1]
    ELSE LET distance     == hamming(hash1, hash2)
             max_distance == Len(hash1) * 4
         IN  [num |-> max_distance - distance, den |-> max_distance]

NoHashes == [hash1 |-> <<>>, hash2 |-> <<>>, result |-> [num |-> 0, den |-> 1]]

----------------------------------------------------------------------------
(* Comparison identifiers *)

MaxTime == 2                \* seconds the clock of the model can advance
MaxCalls == 3               \* comparisons of one process

ID_PREFIX == 8              \* figma_node_id[:8]

\* Figma node ids, character by character
NodeIds ==
    { <<"1", ":", "2">>,
      <<"1", "2", "3", "4", "5", "6", "7", ":", "8">>,
      <<"1", "2", "3", "4", "5", "6", "7", ":", "9">> }

\* figma_node_id[:8]
prefix(node_id) ==
    SubSeq(node_id, 1, IF Len(node_id) < ID_PREFIX THEN Len(node_id) ELSE ID_PREFIX)

\* compare: comparison_id = f"vr_{int(time.time())}_{figma_node_id[:8]}"
compare_id(t, node_id) == <<"vr", t, prefix(node_id)>>

\* compare_local: comparison_id = f"vr_{int(time.time())}"
compare_local_id(t) == <<"vr", t, <<>> >>

----------------------------------------------------------------------------
(* The dashboard server: COCOStateMachine and the design heuristics *)

MaxRequests == 3            \* HTTP requests the server of the model handles
MaxTransitions == 5         \* direct calls of transition / reset on one machine

States == {"IDLE", "ANALYSIS", "DRAFTING", "PENDING_APPROVAL", "EXECUTING", "SUCCESS", "FAIL"}

\* COCOStateMachine.STATES, its "next_states" entries
STATES ==
    [ s \in States |->
        [ next_states |->
            CASE s = "IDLE"             -> {"ANALYSIS"}
              [] s = "ANALYSIS"         -> {"DRAFTING", "FAIL"}
              [] s = "DRAFTING"         -> {"PENDING_APPROVAL", "FAIL"}
              [] s = "PENDING_APPROVAL" -> {"EXECUTING", "DRAFTING"}
              [] s = "EXECUTING"        -> {"SUCCESS", "FAIL"}
              [] s = "SUCCESS"          -> {"IDLE"}
              [] s = "FAIL"             -> {"ANALYSIS", "DRAFTING", "IDLE"} ] ]

\* what a caller may pass to transition: the states, and a name that is none
TransitionArguments == States \cup {"UNKNOWN"}

\* transition without the next_states check
transition_unchecked(state, new_state) ==
    IF new_state \notin DOMAIN STATES
    THEN [returned |-> FALSE, current_state |-> state, emitted |-> <<>>]
    ELSE [returned |-> TRUE, current_state |-> new_state,
          emitted |-> << [from |-> state, to |-> new_state] >>]

\* COCOStateMachine.transition called with current_state = state and no other
\* thread running: what it returns, the new current_state, the state_change
\* events it emits
transition(state, new_state) ==
    IF new_state \notin DOMAIN STATES
    THEN [returned |-> FALSE, current_state |-> state, emitted |-> <<>>]
    ELSE IF new_state \notin STATES[state].next_states
    THEN [returned |-> FALSE, current_state |-> state, emitted |-> <<>>]
    ELSE [returned |-> TRUE, current_state |-> new_state,
          emitted |-> << [from |-> state, to |-> new_state] >>]

\* the keys of DESIGN_HEURISTICS
DESIGN_HEURISTICS == <<"health", "fintech", "ecommerce", "luxury", "gaming">>

\* detect_product_type, its keywords table (one word of each list)
keywords ==
    [ product_type \in {"health", "fintech", "ecommerce", "luxury", "gaming"} |->
        CASE product_type = "health"    -> {"wellness"}
          [] product_type = "fintech"   -> {"bank"}
          [] product_type = "ecommerce" -> {"shop"}
          [] product_type = "luxury"    -> {"premium"}
          [] product_type = "gaming"    -> {"game"} ]

\* the prompts of the model, word by word; <<>> is the empty prompt
Prompts == { <<>>, <<"wellness", "app">>, <<"crm">> }

Words(prompt) == { prompt[i] : i \in DOMAIN prompt }

\* detect_product_type: the first product type, in the order of the table,
\* one of whose keywords the prompt contains; "saas" when there is none
detect_product_type(prompt) ==
    LET hits == { i \in DOMAIN DESIGN_HEURISTICS :
                     keywords[DESIGN_HEURISTICS[i]] \cap Words(prompt) # {} }
    IN  IF hits = {} THEN "saas"
        ELSE DESIGN_HEURISTICS[CHOOSE i \in hits : \A j \in hits : i <= j]

\* apply_heuristics: DESIGN_HEURISTICS.get(product_type, DESIGN_HEURISTICS["saas"])
\* evaluates its second argument before the call, whatever product_type is
apply_heuristics(prompt) ==
    LET keys == { DESIGN_HEURISTICS[i] : i \in DOMAIN DESIGN_HEURISTICS }
    IN  IF "saas" \notin keys THEN "KeyError"
        ELSE detect_product_type(prompt)

\* a background thread running run_generation: where it stands, its prompt,
\* the local old_state of its transition call; replaced is the value its
\* assignment to current_state overwrote, reset_between tells that reset ran
\* between its check of next_states and its assignment
Thread(prompt) ==
    [ pc |-> "start", prompt |-> prompt, old_state |-> "None",
      replaced |-> "None", reset_between |-> FALSE ]

NoResponse == [route |-> "", status |-> 0]
NoCall == [kind |-> "", new_state |-> "", returned |-> FALSE]

\* coco = COCOStateMachine(), no request handled yet
DashIdle ==
    /\ current_state = "IDLE"
    /\ thinking_log = 0
    /\ approval_request = "None"
    /\ requests = 0
    /\ response = NoResponse
    /\ threads = <<>>
    /\ executions = 0
    /\ events = <<>>
    /\ last_call = NoCall

----------------------------------------------------------------------------
(* The console agent: CocoAgent (src/coco.py) *)

\* the keys of the keywords table of CocoAgent.detect_product_type, in order
ProductTypes == <<"health", "fintech", "luxury", "gaming", "saas">>

\* a task text, as the set of product types one of whose keywords it contains
Tasks == SUBSET { ProductTypes[i] : i \in DOMAIN ProductTypes }

\* CocoAgent.detect_product_type: the first product type of the table that
\* the task mentions, "saas" when it mentions none
agent_detect_product_type(t) ==
    LET hits == { i \in DOMAIN ProductTypes : ProductTypes[i] \in t }
    IN  IF hits = {} THEN "saas"
        ELSE ProductTypes[CHOOSE i \in hits : \A j \in hits : i <= j]

\* Prompt.ask(..., choices=["y", "n", "a", "b", "c", "select"], default="b")
\* returns one of its choices
Choices == {"y", "n", "a", "b", "c", "select"}

\* run_workflow executing whatever the answer is
Approves_any(c) == c \in Choices

\* run_workflow: "if choice.lower() in ['y', 'a', 'b', 'c']"
Approves(c) == c \in {"y", "a", "b", "c"}

\* run_workflow: choice.upper() if choice in ['a', 'b', 'c'] else 'B'
select_option(c) ==
    CASE c = "a" -> "A" [] c = "b" -> "B" [] c = "c" -> "C" [] OTHER -> "B"

\* agent = CocoAgent(), run_workflow not yet called
AgentIdle ==
    /\ task = {}
    /\ essence = "saas"
    /\ agent_state = "IDLE"
    /\ agent_pc = "constructed"
    /\ visited = <<"IDLE">>
    /\ choice = ""
    /\ selected_option = "None"

----------------------------------------------------------------------------
(* The agentic core: AgenticCore and CocoOS (src/coco_os.py) *)

\* class CocoState(Enum)
CocoState ==
    {"IDLE", "ANALYZING", "DRAFTING", "WAITING_APPROVAL", "EXECUTING", "SELF_HEALING",
     "SUCCESS", "ERROR"}

\* an instruction, as what _analyze_local looks for in it
Instructions == [component_type : {"component", "DataTable", "Button"}, is_dark : BOOLEAN]

NoInstruction == [component_type |-> "", is_dark |-> FALSE]

\* the text Gemini answers with, as what _parse_gemini_response looks for:
\* the word of a "[STATUS: word]" tag ("None" without tag) and whether there
\* is a json block that parses
GeminiResponses ==
    [status : {"None", "DRAFTING", "WAITING_APPROVAL", "SUCCESS"}, json : BOOLEAN]

\* @dataclass CocoOutput: its status, and whether proposal is set
CocoOutput(status, proposal) == [status |-> status, proposal |-> proposal]

NoOutput == CocoOutput("None", FALSE)

\* AgenticCore._parse_gemini_response: the CocoOutput it returns
parse_gemini_response(resp) ==
    CocoOutput(IF resp.status = "None" THEN "DRAFTING" ELSE resp.status, resp.json)

\* AgenticCore._analyze_local: the CocoOutput it returns
analyze_local(instr) == CocoOutput("WAITING_APPROVAL", TRUE)

\* CocoOS() constructed, no instruction given yet
CoreIdle ==
    /\ gemini_model = FALSE
    /\ core_state = "IDLE"
    /\ core_pc = "prompt"
    /\ instruction = NoInstruction
    /\ output = NoOutput

\* dashboard, agent and core untouched
FlowIdle == DashIdle /\ AgentIdle /\ CoreIdle

----------------------------------------------------------------------------
(* Actions *)

\* no comparison at the level of the image files is under way
ImageIdle ==
    /\ has_playwright = TRUE /\ has_PIL = TRUE /\ has_numpy = TRUE /\ has_imagehash = TRUE
    /\ ipc = "start"
    /\ image1 = NoImage /\ image2 = NoImage
    /\ captured = "none"
    /\ out = NoOut
    /\ hashes = NoHashes

\* no identifier was generated
IdIdle == now = 0 /\ ids = <<>>

\* the CocoVision object after construction
VisionInit ==
    /\ call = "none"
    /\ pc = "idle"
    /\ comparisons = <<>>
    /\ use_gemini = TRUE
    /\ results = <<>>
    /\ acquired = <<>>
    /\ diff = NoDiff
    /\ report = NoReport

Init ==
    /\ threshold \in Thresholds
    /\ VisionInit
    /\ ImageIdle
    /\ IdIdle
    /\ FlowIdle

\* main() constructs one CocoVision and runs one command with it
Ready == pc = "idle" /\ call = "none"

\* what the collaborators answer in one comparison: the comparator is called
\* only when both images were acquired, the analyzer only when moreover
\* use_gemini is set
Compared(both) == IF both THEN ImageComparator_compare ELSE {NotCompared}
Analyzed(gemini, both) == IF gemini /\ both THEN analyze_diff ELSE {None}

\* vision.compare(...) returns a record
compare ==
    /\ Ready
    /\ \E req \in Requests, gemini \in BOOLEAN, figma_ok \in BOOLEAN, code_ok \in BOOLEAN :
       \E cmp \in Compared(figma_ok /\ code_ok), analysis \in Analyzed(gemini, figma_ok /\ code_ok) :
          /\ diff' = CocoVision_compare(req, threshold, gemini, figma_ok, code_ok, cmp, analysis)
          /\ acquired' = << figma_ok /\ code_ok >>
    /\ call' = "compare"
    /\ pc' = "idle"
    /\ comparisons' = <<>> /\ results' = <<>> /\ report' = NoReport
    /\ UNCHANGED <<threshold, use_gemini, imageVars, idVars, flowVars>>

\* vision.compare(...): both images were acquired and ImageComparator.compare
\* raises (Image.open on a file that is no image); nothing catches it
compare_raises ==
    /\ Ready
    /\ call' = "compare"
    /\ pc' = "raised"
    /\ acquired' = << TRUE >>
    /\ diff' = NoDiff
    /\ comparisons' = <<>> /\ results' = <<>> /\ report' = NoReport
    /\ UNCHANGED <<threshold, use_gemini, imageVars, idVars, flowVars>>

\* CocoVision._render_result reads d.get(...) of every entry of
\* semantic_analysis["discrepancies"] when "overall_score" is present: it
\* raises when an entry of the answer is no JSON object
render_can_raise(semantic_analysis) ==
    /\ Truthy(semantic_analysis)
    /\ "overall_score" \in semantic_analysis.keys
    /\ "discrepancies" \in semantic_analysis.keys

\* vision.compare(...): the record is built and self._render_result(diff)
\* raises; nothing catches it, the record is not returned
compare_render_raises ==
    /\ Ready
    /\ \E req \in Requests, cmp \in Compared(TRUE), analysis \in Analyzed(TRUE, TRUE) :
          /\ render_can_raise(analysis)
          /\ diff' = CocoVision_compare(req, threshold, TRUE, TRUE, TRUE, cmp, analysis)
    /\ acquired' = << TRUE >>
    /\ call' = "compare"
    /\ pc' = "raised"
    /\ comparisons' = <<>> /\ results' = <<>> /\ report' = NoReport
    /\ UNCHANGED <<threshold, use_gemini, imageVars, idVars, flowVars>>

\* vision.compare_local(...) returns a record
compare_local ==
    /\ Ready
    /\ \E img \in LocalImages, req \in Requests, gemini \in BOOLEAN :
       \E cmp \in Compared(TRUE), analysis \in Analyzed(gemini, TRUE) :
          diff' = CocoVision_compare_local(img, req.code_url, threshold, gemini, cmp, analysis)
    /\ acquired' = << TRUE >>
    /\ call' = "compare_local"
    /\ pc' = "idle"
    /\ comparisons' = <<>> /\ results' = <<>> /\ report' = NoReport
    /\ UNCHANGED <<threshold, use_gemini, imageVars, idVars, flowVars>>

\* vision.compare_local(...): capture raises (acquired FALSE) or the comparator
\* raises (acquired TRUE); compare_local has no try/except
compare_local_raises ==
    /\ Ready
    /\ \E code_ok \in BOOLEAN : acquired' = << code_ok >>
    /\ call' = "compare_local"
    /\ pc' = "raised"
    /\ diff' = NoDiff
    /\ comparisons' = <<>> /\ results' = <<>> /\ report' = NoReport
    /\ UNCHANGED <<threshold, use_gemini, imageVars, idVars, flowVars>>

\* results.append(diff) putting the newest record first
results_prepend(rs, d) == <<d>> \o rs

\* audit_batch: results.append(diff)
results_append(rs, d) == Append(rs, d)

\* vision.audit_batch(comparisons, use_gemini) is called: results = []
audit_batch_call ==
    /\ Ready
    /\ \E list \in RequestLists, gemini \in BOOLEAN :
          /\ comparisons' = list
          /\ use_gemini' = gemini
    /\ call' = "audit_batch"
    /\ pc' = "batch"
    /\ results' = <<>> /\ acquired' = <<>>
    /\ diff' = NoDiff /\ report' = NoReport
    /\ UNCHANGED <<threshold, imageVars, idVars, flowVars>>

\* one iteration of the for loop: diff = self.compare(...); results.append(diff)
audit_batch_loop ==
    /\ pc = "batch"
    /\ Len(results) < Len(comparisons)
    /\ \E figma_ok \in BOOLEAN, code_ok \in BOOLEAN :
       \E cmp \in Compared(figma_ok /\ code_ok), analysis \in Analyzed(use_gemini, figma_ok /\ code_ok) :
          /\ results' = results_append(results,
                 CocoVision_compare(comparisons[Len(results) + 1], threshold, use_gemini,
                                    figma_ok, code_ok, cmp, analysis))
          /\ acquired' = Append(acquired, figma_ok /\ code_ok)
    /\ UNCHANGED <<threshold, call, pc, comparisons, use_gemini, diff, report, imageVars, idVars, flowVars>>

\* one iteration of the for loop in which self.compare raises (the comparator
\* or _render_result raised): the exception leaves audit_batch, no report is made
audit_batch_loop_raises ==
    /\ pc = "batch"
    /\ Len(results) < Len(comparisons)
    /\ pc' = "raised"
    /\ UNCHANGED <<threshold, call, comparisons, use_gemini, results, acquired, diff, report,
                   imageVars, idVars, flowVars>>

\* the user interrupts the batch (Ctrl-C): KeyboardInterrupt is raised inside
\* the loop; it is no Exception, so no handler of compare catches it, and
\* audit_batch has none: the comparison in flight is abandoned, no report is made
audit_batch_interrupt ==
    /\ pc = "batch"
    /\ pc' = "interrupted"
    /\ UNCHANGED <<threshold, call, comparisons, use_gemini, results, acquired, diff, report,
                   imageVars, idVars, flowVars>>

\* after the loop: "Generate report" and return it
audit_batch_report ==
    /\ pc = "batch"
    /\ Len(results) = Len(comparisons)
    /\ report' = VisionReport(results)
    /\ pc' = "idle"
    /\ UNCHANGED <<threshold, call, comparisons, use_gemini, results, acquired, diff,
                   imageVars, idVars, flowVars>>

Next ==
    \/ compare
    \/ compare_raises
    \/ compare_render_raises
    \/ compare_local
    \/ compare_local_raises
    \/ audit_batch_call
    \/ audit_batch_loop
    \/ audit_batch_loop_raises
    \/ audit_batch_interrupt
    \/ audit_batch_report

Spec == Init /\ [][Next]_vars

TypeOK ==
    /\ threshold \in Thresholds
    /\ call \in {"none", "compare", "compare_local", "audit_batch"}
    /\ pc \in {"idle", "batch", "raised", "interrupted"}
    /\ Len(results) <= Len(comparisons)
    /\ diff.result \in ComparisonResult \cup {""}

----------------------------------------------------------------------------
(* One comparison at the level of the image files *)

\* the process starts with whatever libraries are installed;
\* ImageComparator._check_dependencies sets has_imagehash only when PIL and
\* imagehash (which needs numpy) import
ImageInit ==
    /\ threshold = DEFAULT_THRESHOLD
    /\ VisionInit
    /\ IdIdle
    /\ FlowIdle
    /\ has_playwright \in BOOLEAN /\ has_PIL \in BOOLEAN /\ has_numpy \in BOOLEAN
    /\ has_imagehash \in BOOLEAN
    /\ has_imagehash => (has_PIL /\ has_numpy)
    /\ ipc = "start"
    /\ image1 = NoImage /\ image2 = NoImage
    /\ captured = "none"
    /\ out = NoOut
    /\ hashes = NoHashes

\* FigmaExporter.export_frame writes the design image (compare_local is
\* given it as a file)
export_frame ==
    /\ ipc = "start"
    /\ image1' \in Images
    /\ ipc' = "exported"
    /\ UNCHANGED <<has_playwright, has_PIL, has_numpy, has_imagehash, image2, captured, out, hashes>>
    /\ UNCHANGED <<visionVars, idVars, flowVars>>

\* ScreenshotCapturer._capture_playwright: the browser renders the page and
\* the screenshot is written
capture_playwright ==
    /\ ipc = "exported"
    /\ has_playwright
    /\ image2' \in Images
    /\ captured' = "screenshot"
    /\ ipc' = "captured"
    /\ UNCHANGED <<has_playwright, has_PIL, has_numpy, has_imagehash, image1, out, hashes>>
    /\ UNCHANGED <<visionVars, idVars, flowVars>>

\* ScreenshotCapturer._capture_playwright: the browser or the page fails; the
\* exception is no ImportError and leaves capture
capture_playwright_raises ==
    /\ ipc = "exported"
    /\ has_playwright
    /\ captured' = "raised"
    /\ ipc' = "captured"
    /\ UNCHANGED <<has_playwright, has_PIL, has_numpy, has_imagehash, image1, image2, out, hashes>>
    /\ UNCHANGED <<visionVars, idVars, flowVars>>

\* ScreenshotCapturer._capture_fallback: the file it writes and returns the
\* path of
capture_fallback(pil) ==
    IF pil THEN [image |-> PlaceholderImage, kind |-> "placeholder"]
    ELSE [image |-> NoImage, kind |-> "empty"]

\* ScreenshotCapturer._capture_playwright without playwright: except
\* ImportError: return self._capture_fallback(url, output_path)
capture_playwright_fallback ==
    /\ ipc = "exported"
    /\ ~has_playwright
    /\ image2' = capture_fallback(has_PIL).image
    /\ captured' = capture_fallback(has_PIL).kind
    /\ ipc' = "captured"
    /\ UNCHANGED <<has_playwright, has_PIL, has_numpy, has_imagehash, image1, out, hashes>>
    /\ UNCHANGED <<visionVars, idVars, flowVars>>

\* self.comparator.compare(figma_path, code_path, output_diff_path): called
\* with whatever path capture returned
ImageComparator_compare_call ==
    /\ ipc = "captured"
    /\ captured # "raised"
    /\ IF ~(has_PIL /\ has_numpy)
       THEN out' = compare_unavailable
       ELSE \E img2 \in (IF image1.width = image2.width /\ image1.height = image2.height
                         THEN {image2} ELSE resize(image2, image1.width)) :
               out' = compare_images(image1, img2)
    /\ ipc' = "compared"
    /\ UNCHANGED <<has_playwright, has_PIL, has_numpy, has_imagehash, image1, image2, captured, hashes>>
    /\ UNCHANGED <<visionVars, idVars, flowVars>>

\* comparator.compare_hashes(hash1, hash2) on two hashes perceptual_hash made
compare_hashes_call ==
    /\ ipc = "start"
    /\ \E hash1 \in HashStrings, hash2 \in HashStrings :
          hashes' = [hash1 |-> hash1, hash2 |-> hash2,
                     result |-> compare_hashes(hash1, hash2, has_imagehash)]
    /\ ipc' = "hashed"
    /\ UNCHANGED <<has_playwright, has_PIL, has_numpy, has_imagehash, image1, image2, captured, out>>
    /\ UNCHANGED <<visionVars, idVars, flowVars>>

ImageNext ==
    \/ export_frame
    \/ capture_playwright
    \/ capture_playwright_raises
    \/ capture_playwright_fallback
    \/ ImageComparator_compare_call
    \/ compare_hashes_call

ImageSpec == ImageInit /\ [][ImageNext]_vars

----------------------------------------------------------------------------
(* The identifiers of the comparisons of one process *)

IdInit ==
    /\ threshold = DEFAULT_THRESHOLD
    /\ VisionInit
    /\ ImageIdle
    /\ IdIdle
    /\ FlowIdle

\* a second passes
tick ==
    /\ now < MaxTime
    /\ now' = now + 1
    /\ UNCHANGED <<ids, visionVars, imageVars, flowVars>>

\* compare (called directly or by audit_batch) generates its comparison_id
compare_generates_id ==
    /\ Len(ids) < MaxCalls
    /\ \E node_id \in NodeIds : ids' = Append(ids, compare_id(now, node_id))
    /\ UNCHANGED <<now, visionVars, imageVars, flowVars>>

\* compare_local generates its comparison_id
compare_local_generates_id ==
    /\ Len(ids) < MaxCalls
    /\ ids' = Append(ids, compare_local_id(now))
    /\ UNCHANGED <<now, visionVars, imageVars, flowVars>>

IdNext ==
    \/ tick
    \/ compare_generates_id
    \/ compare_local_generates_id

IdSpec == IdInit /\ [][IdNext]_vars

----------------------------------------------------------------------------
(* The comparison of a reference image with a shifted copy of it *)

ScenarioInit == ImageInit

\* the design is an image of one colour
export_reference ==
    /\ ipc = "start"
    /\ \E colour \in Palette : image1' = Uniform(ScenarioWidth, colour)
    /\ ipc' = "exported"
    /\ UNCHANGED <<has_playwright, has_PIL, has_numpy, has_imagehash, image2, captured, out, hashes>>
    /\ UNCHANGED <<visionVars, idVars, flowVars>>

\* the screenshot is the design with a block of up to MaxShift pixels in
\* another colour
capture_shifted ==
    /\ ipc = "exported"
    /\ \E colour \in Palette, k \in 0..MaxShift :
          \E p \in 1..(ScenarioWidth - k + 1) :
             image2' = Painted(image1, p, k, colour)
    /\ captured' = "screenshot"
    /\ ipc' = "captured"
    /\ UNCHANGED <<has_playwright, has_PIL, has_numpy, has_imagehash, image1, out, hashes>>
    /\ UNCHANGED <<visionVars, idVars, flowVars>>

ScenarioNext ==
    \/ export_reference
    \/ capture_shifted
    \/ ImageComparator_compare_call

ScenarioSpec == ScenarioInit /\ [][ScenarioNext]_vars

----------------------------------------------------------------------------
(* The dashboard server: its request handlers and background threads *)

OtherIdle == threshold = DEFAULT_THRESHOLD /\ VisionInit /\ ImageIdle /\ IdIdle

DashInit == OtherIdle /\ DashIdle /\ AgentIdle /\ CoreIdle

\* the fields of thread i replaced by those of the record r
SetThread(i, r) == [threads EXCEPT ![i] = r]

\* POST /api/generate: 400 without prompt, otherwise run_generation is
\* started in a new thread
generate_design ==
    /\ requests < MaxRequests
    /\ \E prompt \in Prompts :
          IF prompt = <<>>
          THEN /\ response' = [route |-> "generate", status |-> 400]
               /\ threads' = threads
          ELSE /\ response' = [route |-> "generate", status |-> 200]
               /\ threads' = Append(threads, Thread(prompt))
    /\ requests' = requests + 1
    /\ UNCHANGED <<current_state, thinking_log, approval_request, executions, events, last_call>>
    /\ UNCHANGED <<visionVars, imageVars, idVars, agentVars, coreVars>>

\* run_generation, coco.transition("ANALYSIS"), lines 78-83: the check of
\* new_state against next_states of the current state
transition_validate(i) ==
    /\ threads[i].pc = "start"
    /\ threads' = SetThread(i,
          [threads[i] EXCEPT !.pc =
              IF "ANALYSIS" \in DOMAIN STATES /\ "ANALYSIS" \in STATES[current_state].next_states
              THEN "validated" ELSE "think"])
    /\ UNCHANGED <<current_state, thinking_log, approval_request, requests, response,
                   executions, events, last_call>>
    /\ UNCHANGED <<visionVars, imageVars, idVars, agentVars, coreVars>>

\* transition, line 85: old_state = self.current_state
transition_old_state(i) ==
    /\ threads[i].pc = "validated"
    /\ threads' = SetThread(i, [threads[i] EXCEPT !.pc = "saved", !.old_state = current_state])
    /\ UNCHANGED <<current_state, thinking_log, approval_request, requests, response,
                   executions, events, last_call>>
    /\ UNCHANGED <<visionVars, imageVars, idVars, agentVars, coreVars>>

\* transition, lines 86-95: self.current_state = new_state, and the
\* state_change event
transition_assign(i) ==
    /\ threads[i].pc = "saved"
    /\ current_state' = "ANALYSIS"
    /\ events' = Append(events, [from |-> threads[i].old_state, to |-> "ANALYSIS"])
    /\ threads' = SetThread(i, [threads[i] EXCEPT !.pc = "think", !.replaced = current_state])
    /\ UNCHANGED <<thinking_log, approval_request, requests, response, executions, last_call>>
    /\ UNCHANGED <<visionVars, imageVars, idVars, agentVars, coreVars>>

\* run_generation, line 233: coco.think("Iniciando analisis del brief...")
run_generation_think(i) ==
    /\ threads[i].pc = "think"
    /\ thinking_log' = thinking_log + 1
    /\ threads' = SetThread(i, [threads[i] EXCEPT !.pc = "heuristics"])
    /\ UNCHANGED <<current_state, approval_request, requests, response, executions, events,
                   last_call>>
    /\ UNCHANGED <<visionVars, imageVars, idVars, agentVars, coreVars>>

\* run_generation, line 236: heuristics = apply_heuristics(prompt); a KeyError
\* ends the thread.  Nothing catches it, and the lines after 236 are run by
\* no thread of the model
run_generation_apply_heuristics(i) ==
    /\ threads[i].pc = "heuristics"
    /\ threads' = SetThread(i,
          [threads[i] EXCEPT !.pc =
              IF apply_heuristics(threads[i].prompt) = "KeyError" THEN "raised" ELSE "analysed"])
    /\ UNCHANGED <<current_state, thinking_log, approval_request, requests, response,
                   executions, events, last_call>>
    /\ UNCHANGED <<visionVars, imageVars, idVars, agentVars, coreVars>>

\* approve_design answering without the check of current_state
approve_design_unchecked ==
    /\ requests < MaxRequests
    /\ thinking_log' = thinking_log + 1
    /\ current_state' = transition(current_state, "EXECUTING").current_state
    /\ events' = events \o transition(current_state, "EXECUTING").emitted
    /\ executions' = executions + 1
    /\ response' = [route |-> "approve", status |-> 200]
    /\ requests' = requests + 1
    /\ UNCHANGED <<approval_request, threads, last_call>>
    /\ UNCHANGED <<visionVars, imageVars, idVars, agentVars, coreVars>>

\* POST /api/approve: 400 unless current_state is PENDING_APPROVAL; otherwise
\* think, transition("EXECUTING") and the start of the execute thread
approve_design ==
    /\ requests < MaxRequests
    /\ IF current_state # "PENDING_APPROVAL"
       THEN /\ response' = [route |-> "approve", status |-> 400]
            /\ UNCHANGED <<current_state, thinking_log, executions, events>>
       ELSE /\ thinking_log' = thinking_log + 1
            /\ current_state' = transition(current_state, "EXECUTING").current_state
            /\ events' = events \o transition(current_state, "EXECUTING").emitted
            /\ executions' = executions + 1
            /\ response' = [route |-> "approve", status |-> 200]
    /\ requests' = requests + 1
    /\ UNCHANGED <<approval_request, threads, last_call>>
    /\ UNCHANGED <<visionVars, imageVars, idVars, agentVars, coreVars>>

\* POST /api/reset: coco.reset().  The threads that have checked next_states
\* and not yet assigned are marked
reset_coco ==
    /\ requests < MaxRequests
    /\ current_state' = "IDLE"
    /\ thinking_log' = 0
    /\ approval_request' = "None"
    /\ threads' = [i \in DOMAIN threads |->
                     IF threads[i].pc \in {"validated", "saved"}
                     THEN [threads[i] EXCEPT !.reset_between = TRUE]
                     ELSE threads[i]]
    /\ response' = [route |-> "reset", status |-> 200]
    /\ requests' = requests + 1
    /\ UNCHANGED <<executions, events, last_call>>
    /\ UNCHANGED <<visionVars, imageVars, idVars, agentVars, coreVars>>

\* a step of a background thread
thread_step ==
    \E i \in DOMAIN threads :
        \/ transition_validate(i)
        \/ transition_old_state(i)
        \/ transition_assign(i)
        \/ run_generation_think(i)
        \/ run_generation_apply_heuristics(i)

DashNext ==
    \/ generate_design
    \/ approve_design
    \/ reset_coco
    \/ thread_step

DashSpec == DashInit /\ [][DashNext]_vars

\* every started thread runs on: the scheduler lets no runnable thread wait
\* for ever
DashLiveSpec == DashInit /\ [][DashNext]_vars /\ WF_vars(thread_step)

----------------------------------------------------------------------------
(* COCOStateMachine called directly, one call after the other *)

MachineInit == DashInit

\* coco.transition(new_state)
transition_call ==
    /\ requests < MaxTransitions
    /\ \E new_state \in TransitionArguments :
          LET r == transition(current_state, new_state)
          IN  /\ current_state' = r.current_state
              /\ events' = events \o r.emitted
              /\ last_call' = [kind |-> "transition", new_state |-> new_state,
                               returned |-> r.returned]
    /\ requests' = requests + 1
    /\ UNCHANGED <<thinking_log, approval_request, response, threads, executions>>
    /\ UNCHANGED <<visionVars, imageVars, idVars, agentVars, coreVars>>

\* coco.reset()
reset ==
    /\ requests < MaxTransitions
    /\ current_state' = "IDLE"
    /\ thinking_log' = 0
    /\ approval_request' = "None"
    /\ last_call' = [kind |-> "reset", new_state |-> "", returned |-> FALSE]
    /\ requests' = requests + 1
    /\ UNCHANGED <<response, threads, executions, events>>
    /\ UNCHANGED <<visionVars, imageVars, idVars, agentVars, coreVars>>

MachineNext ==
    \/ transition_call
    \/ reset

MachineSpec == MachineInit /\ [][MachineNext]_vars

----------------------------------------------------------------------------
(* The console agent: main, run_workflow and execute of src/coco.py *)

AgentInit == OtherIdle /\ DashIdle /\ AgentIdle /\ CoreIdle

\* self.state = s
set_agent_state(s) ==
    /\ agent_state' = s
    /\ visited' = Append(visited, s)

\* main without a task: nothing is run
main_no_task ==
    /\ agent_pc = "constructed"
    /\ agent_pc' = "done"
    /\ UNCHANGED <<task, essence, agent_state, visited, choice, selected_option>>
    /\ UNCHANGED <<visionVars, imageVars, idVars, dashVars, coreVars>>

\* run_workflow(task), lines 151-164: the essence, then "1. ANALYSIS"
run_workflow_analysis ==
    /\ agent_pc = "constructed"
    /\ \E t \in Tasks :
          /\ task' = t
          /\ essence' = agent_detect_product_type(t)
    /\ set_agent_state("ANALYSIS")
    /\ agent_pc' = "analysis"
    /\ UNCHANGED <<choice, selected_option>>
    /\ UNCHANGED <<visionVars, imageVars, idVars, dashVars, coreVars>>

\* run_workflow, lines 167-263: "2. DRAFTING"
run_workflow_drafting ==
    /\ agent_pc = "analysis"
    /\ set_agent_state("DRAFTING")
    /\ agent_pc' = "drafting"
    /\ UNCHANGED <<task, essence, choice, selected_option>>
    /\ UNCHANGED <<visionVars, imageVars, idVars, dashVars, coreVars>>

\* run_workflow, lines 266-279: "3. PENDING_APPROVAL"
run_workflow_pending_approval ==
    /\ agent_pc = "drafting"
    /\ set_agent_state("PENDING_APPROVAL")
    /\ agent_pc' = "pending"
    /\ UNCHANGED <<task, essence, choice, selected_option>>
    /\ UNCHANGED <<visionVars, imageVars, idVars, dashVars, coreVars>>

\* run_workflow, lines 281-285: choice = Prompt.ask(...)
run_workflow_ask ==
    /\ agent_pc = "pending"
    /\ choice' \in Choices
    /\ agent_pc' = "asked"
    /\ UNCHANGED <<task, essence, agent_state, visited, selected_option>>
    /\ UNCHANGED <<visionVars, imageVars, idVars, dashVars, coreVars>>

\* Prompt.ask is left by KeyboardInterrupt or EOFError: run_workflow ends there
run_workflow_ask_raises ==
    /\ agent_pc = "pending"
    /\ agent_pc' = "raised"
    /\ UNCHANGED <<task, essence, agent_state, visited, choice, selected_option>>
    /\ UNCHANGED <<visionVars, imageVars, idVars, dashVars, coreVars>>

\* run_workflow, lines 287-289, and execute, line 296
run_workflow_execute ==
    /\ agent_pc = "asked"
    /\ Approves(choice)
    /\ selected_option' = select_option(choice)
    /\ set_agent_state("EXECUTING")
    /\ agent_pc' = "executing"
    /\ UNCHANGED <<task, essence, choice>>
    /\ UNCHANGED <<visionVars, imageVars, idVars, dashVars, coreVars>>

\* run_workflow, lines 290-292: "Abortado por el usuario"
run_workflow_abort ==
    /\ agent_pc = "asked"
    /\ ~Approves(choice)
    /\ set_agent_state("IDLE")
    /\ agent_pc' = "done"
    /\ UNCHANGED <<task, essence, choice, selected_option>>
    /\ UNCHANGED <<visionVars, imageVars, idVars, dashVars, coreVars>>

\* execute, lines 299-365: the simulated steps, then self.state = "SUCCESS"
execute_success ==
    /\ agent_pc = "executing"
    /\ set_agent_state("SUCCESS")
    /\ agent_pc' = "done"
    /\ UNCHANGED <<task, essence, choice, selected_option>>
    /\ UNCHANGED <<visionVars, imageVars, idVars, dashVars, coreVars>>

AgentNext ==
    \/ main_no_task
    \/ run_workflow_analysis
    \/ run_workflow_drafting
    \/ run_workflow_pending_approval
    \/ run_workflow_ask
    \/ run_workflow_ask_raises
    \/ run_workflow_execute
    \/ run_workflow_abort
    \/ execute_success

AgentSpec == AgentInit /\ [][AgentNext]_vars

----------------------------------------------------------------------------
(* The agentic core: CocoOS.interactive, AgenticCore.analyze, ExecutiveLayer.apply *)

\* _init_gemini sets gemini_model when the library imports and the key is set
CoreInit ==
    /\ OtherIdle /\ DashIdle /\ AgentIdle
    /\ gemini_model \in BOOLEAN
    /\ core_state = "IDLE"
    /\ core_pc = "prompt"
    /\ instruction = NoInstruction
    /\ output = NoOutput

\* interactive reads an instruction; execute calls analyze, lines 272-276
analyze ==
    /\ core_pc = "prompt"
    /\ instruction' \in Instructions
    /\ core_state' = "ANALYZING"
    /\ core_pc' = "analyzing"
    /\ UNCHANGED <<gemini_model, output>>
    /\ UNCHANGED <<visionVars, imageVars, idVars, dashVars, agentVars>>

\* analyze, line 281: return self._analyze_local(instruction, context)
analyze_returns_local ==
    /\ core_pc = "analyzing"
    /\ ~gemini_model
    /\ core_state' = "WAITING_APPROVAL"
    /\ output' = analyze_local(instruction)
    /\ core_pc' = "returned"
    /\ UNCHANGED <<gemini_model, instruction>>
    /\ UNCHANGED <<visionVars, imageVars, idVars, dashVars, agentVars>>

\* analyze, line 279, _analyze_with_gemini, lines 314-315: Gemini answers and
\* _parse_gemini_response sets DRAFTING and builds the output from the text
analyze_returns_gemini ==
    /\ core_pc = "analyzing"
    /\ gemini_model
    /\ core_state' = "DRAFTING"
    /\ \E resp \in GeminiResponses : output' = parse_gemini_response(resp)
    /\ core_pc' = "returned"
    /\ UNCHANGED <<gemini_model, instruction>>
    /\ UNCHANGED <<visionVars, imageVars, idVars, dashVars, agentVars>>

\* _analyze_with_gemini, lines 316-321: generate_content raises
analyze_returns_gemini_error ==
    /\ core_pc = "analyzing"
    /\ gemini_model
    /\ core_state' = "ERROR"
    /\ output' = CocoOutput("ERROR", FALSE)
    /\ core_pc' = "returned"
    /\ UNCHANGED <<gemini_model, instruction>>
    /\ UNCHANGED <<visionVars, imageVars, idVars, dashVars, agentVars>>

\* interactive, lines 649-659: the approval prompt, shown for status
\* WAITING_APPROVAL; "y" calls apply, which without proposal does nothing and
\* otherwise sets EXECUTING and then SUCCESS
interactive_approval ==
    /\ core_pc = "returned"
    /\ output.status = "WAITING_APPROVAL"
    /\ \E answer \in {"y", "n", "ship"} :
          core_state' = IF answer = "y" /\ output.proposal THEN "SUCCESS" ELSE core_state
    /\ core_pc' = "prompt"
    /\ UNCHANGED <<gemini_model, instruction, output>>
    /\ UNCHANGED <<visionVars, imageVars, idVars, dashVars, agentVars>>

\* interactive, line 649: any other status, back to the prompt
interactive_next ==
    /\ core_pc = "returned"
    /\ output.status # "WAITING_APPROVAL"
    /\ core_pc' = "prompt"
    /\ UNCHANGED <<gemini_model, core_state, instruction, output>>
    /\ UNCHANGED <<visionVars, imageVars, idVars, dashVars, agentVars>>

CoreNext ==
    \/ analyze
    \/ analyze_returns_local
    \/ analyze_returns_gemini
    \/ analyze_returns_gemini_error
    \/ interactive_approval
    \/ interactive_next

CoreSpec == CoreInit /\ [][CoreNext]_vars

----------------------------------------------------------------------------
(* The records a run has produced *)

\* the records CocoVision.compare returned: to the caller, or to audit_batch
compareRecords ==
    IF call = "compare" /\ pc = "idle" THEN {diff}
    ELSE IF call = "audit_batch" THEN { results[i] : i \in DOMAIN results }
    ELSE {}

\* the record CocoVision.compare_local returned
localRecords == IF call = "compare_local" /\ pc = "idle" THEN {diff} ELSE {}

\* audit_batch has returned its report
Reported == call = "audit_batch" /\ pc = "idle"

\* the recommendation a record's semantic judgment carries, "none" without one
Recommendation(r) ==
    IF ~r.semantic_analysis.isNone /\ "recommendation" \in r.semantic_analysis.keys
    THEN r.semantic_analysis.recommendation
    ELSE "none"

\* the base rule and the override rule as the design states them
BaseOutcome(s, t) ==
    IF s >= t THEN "PASS" ELSE IF s < t - 10 THEN "FAIL" ELSE "WARNING"

Severity(o) == CASE o = "PASS" -> 0 [] o = "WARNING" -> 1 [] o = "FAIL" -> 2 [] OTHER -> 3

Classify(s, t, rec) ==
    LET base == BaseOutcome(s, t)
    IN  IF rec = "BLOCK" THEN "FAIL"
        ELSE IF rec = "FIX" /\ base = "PASS" THEN "WARNING"
        ELSE base

----------------------------------------------------------------------------
(* Claims *)

\* C1: a record without a semantic recommendation is PASS iff its similarity
\* is at least the threshold, FAIL iff its similarity is below the threshold
\* minus 0.10, and WARNING in every other case
C1_BaseRule ==
    \A r \in compareRecords \cup localRecords :
        Recommendation(r) = "none" =>
            /\ (r.result = "PASS") <=> (r.similarity_score >= r.threshold)
            /\ (r.result = "FAIL") <=> (r.similarity_score < r.threshold - 10)
            /\ (r.result = "WARNING") <=> ( /\ r.similarity_score < r.threshold
                                            /\ r.similarity_score >= r.threshold - 10 )

\* a record without recommendation whose similarity is exactly the threshold
\* (PASS) next to one exactly 0.10 below it (WARNING)
C1_Witness ==
    /\ Reported
    /\ \E r \in compareRecords :
          Recommendation(r) = "none" /\ r.similarity_score = r.threshold /\ r.result = "PASS"
    /\ \E r \in compareRecords :
          /\ Recommendation(r) = "none" /\ r.similarity_score = r.threshold - 10
          /\ r.result = "WARNING"

\* C2: with a FIX recommendation the outcome of compare is never less severe
\* than the base-rule outcome of the same similarity and threshold
C2_FixNeverLoosens ==
    \A r \in compareRecords :
        Recommendation(r) = "FIX" =>
            Severity(r.result) >= Severity(BaseOutcome(r.similarity_score, r.threshold))

\* C3: every record whose semantic judgment recommends BLOCK has outcome FAIL,
\* from compare and from compare_local
C3_BlockForcesFail ==
    \A r \in compareRecords \cup localRecords :
        Recommendation(r) = "BLOCK" => r.result = "FAIL"

\* C4: a SHIP recommendation never changes the outcome: it is the base-rule
\* outcome of the record's similarity and threshold
C4_ShipKeepsBase ==
    \A r \in compareRecords \cup localRecords :
        Recommendation(r) = "SHIP" =>
            r.result = BaseOutcome(r.similarity_score, r.threshold)

\* compare returned a SHIP record whose base outcome is FAIL, and it is FAIL
C4_Witness ==
    /\ call = "compare" /\ pc = "idle"
    /\ Recommendation(diff) = "SHIP"
    /\ diff.similarity_score < diff.threshold - 10
    /\ diff.result = "FAIL"

\* C5: the stored result of every record is the classification rule (base
\* rule, then the SHIP/FIX/BLOCK override) of its stored similarity_score,
\* threshold and semantic_analysis
C5_ResultDerivable ==
    \A r \in compareRecords \cup localRecords :
        r.result = Classify(r.similarity_score, r.threshold, Recommendation(r))

\* C6: a comparison one of whose images could not be acquired has outcome
\* ERROR, similarity 0 and no diff image
C6_UnavailableIsError ==
    /\ (call = "compare" /\ pc = "idle" /\ ~acquired[1]) =>
           diff.result = "ERROR" /\ diff.similarity_score = 0 /\ diff.diff_image_path = "None"
    /\ call = "audit_batch" =>
           \A i \in DOMAIN results :
               ~acquired[i] => /\ results[i].result = "ERROR"
                               /\ results[i].similarity_score = 0
                               /\ results[i].diff_image_path = "None"

\* C7: a batch in which a comparison failed is never aborted, and once it is
\* over its report has one result per request, the failed ones marked ERROR
C7_FailureKeepsBatch ==
    call = "audit_batch" =>
        /\ pc # "raised"
        /\ Reported =>
              /\ report.total_comparisons = Len(comparisons)
              /\ Len(report.comparisons) = Len(comparisons)
              /\ \A i \in DOMAIN report.comparisons :
                    ~acquired[i] => report.comparisons[i].result = "ERROR"

\* C8: in a returned report the i-th entry of comparisons is the result of
\* the i-th request: it carries that request's sources
C8_ResultOrder ==
    Reported =>
        /\ Len(report.comparisons) = Len(comparisons)
        /\ \A i \in DOMAIN report.comparisons :
              /\ report.comparisons[i].figma_source =
                    comparisons[i].figma_file \o ":" \o comparisons[i].figma_node
              /\ report.comparisons[i].code_source = comparisons[i].code_url

\* a report over two different requests, the first of which lost an image
C8_Witness ==
    /\ Reported
    /\ Len(report.comparisons) = 2
    /\ comparisons[1] # comparisons[2]
    /\ ~acquired[1] /\ acquired[2]

\* C9: in a returned report every result is in exactly one outcome bucket and
\* the buckets (passed, warnings, failed, ERROR results) sum to
\* total_comparisons, the number of results
C9_CountsSumToTotal ==
    Reported =>
        LET errors == Cardinality({ i \in DOMAIN report.comparisons :
                                       report.comparisons[i].result = "ERROR" })
        IN  /\ report.total_comparisons = Len(report.comparisons)
            /\ report.passed + report.warnings + report.failed + errors
                   = report.total_comparisons
            /\ \A i \in DOMAIN report.comparisons :
                  report.comparisons[i].result \in ComparisonResult

\* a report over two results in different buckets
C9_Witness ==
    /\ Reported
    /\ report.total_comparisons = 2
    /\ report.warnings = 1
    /\ report.failed = 1

\* C10: average_similarity is the mean of the similarities of the results
\* whose images were acquired; a comparison that lost an image is not in it
C10_MeanSkipsUnavailable ==
    Reported =>
        LET ok == { i \in DOMAIN report.comparisons : acquired[i] }
            okSum[ i \in 0..Len(results) ] ==
                IF i = 0 THEN 0
                ELSE okSum[i - 1] + (IF i \in ok THEN report.comparisons[i].similarity_score ELSE 0)
        IN  ok # {} =>
               report.average_similarity.num * Cardinality(ok)
                   = okSum[Len(results)] * report.average_similarity.den

\* C11: once cancellation is signaled to a batch run, the run ends by
\* returning a report that contains exactly the results completed so far
C11_CancelKeepsPartialReport ==
    (call = "audit_batch" /\ pc = "interrupted") =>
        /\ report.total_comparisons = Len(results)
        /\ report.comparisons = results

\* C12: no exception leaves compare or compare_local: a failure in any stage
\* yields a returned record with outcome ERROR
C12_NoRawException ==
    call \in {"compare", "compare_local"} =>
        /\ pc = "idle"
        /\ ~acquired[1] => diff.result = "ERROR"

\* C13: with a threshold outside (0,1] no image is acquired, no comparison is
\* run and no record is produced
C13_BadThresholdRejected ==
    (threshold <= 0 \/ threshold > 100) =>
        /\ acquired = <<>>
        /\ results = <<>>
        /\ compareRecords \cup localRecords = {}
        /\ diff = NoDiff

\* C19: when the analyzer is unavailable, disabled, fails or answers without
\* a SHIP/FIX/BLOCK recommendation, the comparison completes (compare returns
\* the record it built) and the outcome is the base-rule outcome
C19_AnalyzerOptional ==
    /\ (call = "compare" /\ diff # NoDiff
            /\ Recommendation(diff) \notin {"SHIP", "FIX", "BLOCK"}) =>
           /\ pc = "idle"
           /\ diff.result = BaseOutcome(diff.similarity_score, diff.threshold)
    /\ \A r \in compareRecords :
           Recommendation(r) \notin {"SHIP", "FIX", "BLOCK"} =>
               r.result = BaseOutcome(r.similarity_score, r.threshold)

----------------------------------------------------------------------------
(* Claims about the image comparison, the hashes and the identifiers *)

\* ImageComparator.compare has returned
ImagesCompared == ipc = "compared"

\* PIL and numpy import: ImageComparator.compare computes the pixel diff
CanCompare == has_PIL /\ has_numpy

\* the images compared have identical dimensions
SameSize == image1.width = image2.width /\ image1.height = image2.height

\* the thresholds of (0,1], in hundredths
ValidThresholds == 1..100

C15_Symmetric ==
    (ImagesCompared /\ SameSize) =>
        out.similarity = IF CanCompare THEN similarity_of(image2, image1)
                         ELSE compare_unavailable.similarity

\* two different images of the same size were compared, one of them with a
\* black pixel where the other has a white one
C15_Witness ==
    /\ ImagesCompared /\ CanCompare /\ SameSize
    /\ \E i \in 1..image1.width :
          image1.pixels[i] = <<0, 0, 0>> /\ image2.pixels[i] = <<255, 255, 255>>
    /\ out.similarity.num < out.similarity.den

\* C16: the diff image highlights exactly the pixels flagged in the diff
\* mask: a flagged pixel has the highlight colour, an unflagged pixel is the
\* dimmed pixel of the primary image
C16_DiffImageShowsMask ==
    (ImagesCompared /\ CanCompare) =>
        /\ out.diff_image.width = image1.width
        /\ \A i \in 1..image1.width :
              out.diff_image.pixels[i] =
                  IF out.diff_mask[i] THEN HIGHLIGHT
                  ELSE << (3 * image1.pixels[i][1]) \div 10,
                          (3 * image1.pixels[i][2]) \div 10,
                          (3 * image1.pixels[i][3]) \div 10 >>

\* compare_hashes has returned
Hashed == ipc = "hashed"

C18_NoPlaceholderCapture ==
    /\ (ipc \in {"captured", "compared"} /\ ~has_playwright) => captured = "raised"
    /\ ImagesCompared => captured = "screenshot"

\* C20: the identifiers of the comparisons of one process are pairwise distinct
C20_IdsDistinct ==
    \A i \in DOMAIN ids : \A j \in DOMAIN ids : i # j => ids[i] # ids[j]

----------------------------------------------------------------------------
(* Claims about the pixel counts of a record *)

\* the records of a comparison that ran the pixel diff: compare was given an
\* output_diff_path, so it wrote the diff image exactly when it ran the diff
pixelDiffRecords ==
    { r \in compareRecords \cup localRecords : r.diff_image_path # "None" }

\* C21: in every record of a comparison that ran the pixel diff, total_pixels
\* is the number of pixels compared (at least one), and pixel_diff_count is
\* at most total_pixels
C21_CountWithinTotal ==
    \A r \in pixelDiffRecords :
        /\ r.total_pixels >= 1
        /\ r.pixel_diff_count <= r.total_pixels

----------------------------------------------------------------------------
(* Claims about the numbers of the pixel diff *)

\* about 5% of the pixels differ beyond the noise threshold (between 4% and
\* 5% of them) and every other pixel is identical in the two images
AboutFivePercentDiffer ==
    /\ ImagesCompared /\ SameSize
    /\ LET differing == { i \in 1..image1.width :
                            \E c \in 1..3 :
                               Abs(image1.pixels[i][c] - image2.pixels[i][c]) > NOISE_THRESHOLD }
       IN  /\ 4 * (image1.width * image1.height) <= 100 * Cardinality(differing)
           /\ 100 * Cardinality(differing) <= 5 * (image1.width * image1.height)
           /\ \A i \in (1..image1.width) \ differing : image1.pixels[i] = image2.pixels[i]

WhiteAgainstBlack ==
    /\ ImagesCompared /\ SameSize
    /\ \E a \in {<<0, 0, 0>>, <<255, 255, 255>>}, b \in {<<0, 0, 0>>, <<255, 255, 255>>} :
          /\ a # b
          /\ \A i \in 1..image1.width : image1.pixels[i] = a /\ image2.pixels[i] = b

C24_NoiseThreshold ==
    (ImagesCompared /\ CanCompare) =>
        LET img2    == out.img2
            counted == { i \in 1..image1.width : out.diff_mask[i] }
        IN  /\ out.pixel_diff_count = Cardinality(counted)
            /\ \A i \in 1..image1.width :
                  i \in counted <=>
                      \/ Abs(image1.pixels[i][1] - img2.pixels[i][1]) > 10
                      \/ Abs(image1.pixels[i][2] - img2.pixels[i][2]) > 10
                      \/ Abs(image1.pixels[i][3] - img2.pixels[i][3]) > 10

\* of two pixels compared, the one whose channels all differ by exactly 10
\* was not counted and the one with a channel differing by 11 was
C24_Witness ==
    /\ ImagesCompared /\ CanCompare /\ SameSize
    /\ image1.width = 2
    /\ image1.pixels[1] = <<0, 0, 0>> /\ image2.pixels[1] = <<10, 10, 10>>
    /\ image1.pixels[2] = <<0, 0, 0>> /\ image2.pixels[2] = <<11, 0, 0>>
    /\ out.pixel_diff_count = 1
    /\ ~out.diff_mask[1] /\ out.diff_mask[2]

----------------------------------------------------------------------------
(* Claims about the dashboard state machine *)

\* a direct call of transition has just returned
TransitionReturns == requests' = requests + 1 /\ last_call'.kind = "transition"

\* C25: transition(new_state) changes current_state only when new_state is
\* listed in next_states of the current state (it then returns True and emits
\* one state_change event); for an unknown state or a state not in
\* next_states it returns False, leaves current_state unchanged and emits no
\* state_change event
C25_TransitionGuard ==
    [][ TransitionReturns =>
          IF /\ last_call'.new_state \in States
             /\ last_call'.new_state \in STATES[current_state].next_states
          THEN /\ current_state' = last_call'.new_state
               /\ last_call'.returned
               /\ events' = Append(events, [from |-> current_state, to |-> current_state'])
          ELSE /\ current_state' = current_state
               /\ ~last_call'.returned
               /\ events' = events ]_vars

\* after the accepted transition IDLE -> ANALYSIS, transition("EXECUTING") was
\* refused
C25_Witness ==
    /\ last_call = [kind |-> "transition", new_state |-> "EXECUTING", returned |-> FALSE]
    /\ current_state = "ANALYSIS"
    /\ events = << [from |-> "IDLE", to |-> "ANALYSIS"] >>

\* a generation was started while the machine is IDLE
GenerationStarted ==
    /\ response = [route |-> "generate", status |-> 200]
    /\ current_state = "IDLE"

\* the generation has arrived at the approval gate
AwaitingApproval == current_state = "PENDING_APPROVAL" /\ approval_request = "set"

\* C26: after a POST /api/generate with a non-empty prompt while the machine
\* is IDLE, the machine eventually is in PENDING_APPROVAL with
\* approval_request set, unless a reset intervenes; it does not stay in
\* ANALYSIS for ever
C26_GenerationReachesApproval ==
    GenerationStarted ~> (AwaitingApproval \/ response.route = "reset")

\* C27: under every interleaving of the threads, every assignment transition
\* makes to current_state follows an edge of STATES from the value it
\* replaces, every state_change event is such an edge, and a transition whose
\* check was followed by a reset before its assignment does not take effect
C27_OnlyListedEdges ==
    /\ \A i \in DOMAIN threads :
          threads[i].replaced # "None" =>
              /\ "ANALYSIS" \in STATES[threads[i].replaced].next_states
              /\ ~threads[i].reset_between
    /\ \A k \in DOMAIN events :
          events[k].to \in STATES[events[k].from].next_states

\* POST /api/approve has just been answered
ApproveAnswered == requests' = requests + 1 /\ response'.route = "approve"

----------------------------------------------------------------------------
(* Claims about the console agent and the agentic core *)

IsPrefix(s, t) == Len(s) <= Len(t) /\ \A i \in 1..Len(s) : s[i] = t[i]

\* C29: run_workflow visits its states only in the order IDLE, ANALYSIS,
\* DRAFTING, PENDING_APPROVAL and then either EXECUTING and SUCCESS (the
\* answer is y, a, b or c) or IDLE again (any other answer); EXECUTING is
\* never entered without PENDING_APPROVAL and an approving answer
C29_WorkflowOrder ==
    /\ agent_state = visited[Len(visited)]
    /\ \/ /\ IsPrefix(visited, <<"IDLE", "ANALYSIS", "DRAFTING", "PENDING_APPROVAL",
                                 "EXECUTING", "SUCCESS">>)
          /\ Len(visited) >= 5 => choice \in {"y", "a", "b", "c"}
       \/ /\ visited = <<"IDLE", "ANALYSIS", "DRAFTING", "PENDING_APPROVAL", "IDLE">>
          /\ choice \notin {"y", "a", "b", "c"}
    /\ \A i \in DOMAIN visited :
          visited[i] = "EXECUTING" =>
              /\ i > 1 /\ visited[i - 1] = "PENDING_APPROVAL"
              /\ choice \in {"y", "a", "b", "c"}

\* the workflow ran to SUCCESS on the answer y
C29_Witness ==
    /\ agent_pc = "done"
    /\ visited = <<"IDLE", "ANALYSIS", "DRAFTING", "PENDING_APPROVAL", "EXECUTING", "SUCCESS">>
    /\ choice = "y"
    /\ selected_option = "B"

\* C30: after analyze returns, the status of the returned CocoOutput is the
\* core's current state, on every path, so the approval prompt shown for
\* status WAITING_APPROVAL is shown only when the core is in WAITING_APPROVAL
C30_StatusIsState ==
    core_pc = "returned" =>
        /\ output.status = core_state
        /\ output.status = "WAITING_APPROVAL" => core_state = "WAITING_APPROVAL"

====
